---- MODULE Spec2Model ----
(***************************************************************************)
(* Thread reconstruction in the Soapbox Thread view: the selectors         *)
(* getAncestorsIds and getDescendantsIds and the selector of Thread that   *)
(* composes them, over the store maps state.contexts.inReplyTos and        *)
(* state.contexts.replies.                                                 *)
(*                                                                         *)
(* An ImmutableOrderedSet is a duplicate-free sequence.  Each loop         *)
(* iteration of a selector is one step, so that a traversal that does not  *)
(* end is a behaviour that never leaves the loop.                          *)
(***************************************************************************)
EXTENDS Integers, Sequences, FiniteSets

VARIABLES inReplyTos, replies, pc, statusId, id, ancestorsIds, ids, descendantsIds

\* The ids whose replies the running getDescendantsIds has pushed onto `ids`.
VARIABLES expanded

\* A result of the Thread selector kept from an earlier run, to compare with.
VARIABLES kept

\* The last arguments and result of each createSelector.
VARIABLES memoAncestors, memoDescendants

\* useGroupLookup: the stubbed API, the request and what the hook returns.
VARIABLES mock, request, isFetching, entity

\* The cached paginated query of appendPageItem.
VARIABLES data

\* The index Thread last handed to _selectChild, and the key press it came from.
VARIABLES selected

\* Thread's route parameter, the statuses of the store, the requests of
\* fetchData under way and how many were sent, and Thread's state `next` and
\* `isLoaded`.
VARIABLES params, statuses, inFlight, issued, next, isLoaded

\* fetchAccountFamiliarFollowers: its calls and the actions dispatched.
VARIABLES calls, actions

\* The compose text, the open modal and what the reply and quote handlers
\* dispatched.
VARIABLES composeText, modal, composed

moveVars == <<selected>>
fetchVars == <<params, statuses, inFlight, issued, next, isLoaded>>
followersVars == <<calls, actions>>
composeVars == <<composeText, modal, composed>>

\* The state of Thread beside its selectors.
viewVars == <<moveVars, fetchVars, followersVars, composeVars>>

threadVars == <<inReplyTos, replies, pc, statusId, id, ancestorsIds, ids, descendantsIds, expanded>>

\* What the runs of the selectors that are compared leave alone.
outsideRerun == <<memoAncestors, memoDescendants, mock, request, isFetching, entity, data, viewVars>>

\* What the selectors of Thread neither read nor write.
hookVars == <<kept, memoAncestors, memoDescendants, mock, request, isFetching, entity, data>>

outside == <<hookVars, viewVars>>

vars == <<inReplyTos, replies, pc, statusId, id, ancestorsIds, ids, descendantsIds,
          expanded, kept, memoAncestors, memoDescendants, mock, request, isFetching, entity,
          data, selected, params, statuses, inFlight, issued, next, isLoaded, calls, actions,
          composeText, modal, composed>>

\* The status ids of the model.
Ids == {"A", "B", "C", "D"}

\* The result of Map.get for a key without an entry.
Undefined == "undefined"

\* The result of replies.get for a status without replies: an entry of replies
\* is never an empty set, so the empty sequence stands for undefined.
NoReplies == <<>>

\* Most entries of inReplyTos and of all reply lists together.
MaxEntries == 4

\* Most entries of both maps together where a result is kept over several runs.
MaxRerunEntries == 2

\* Most entries of both maps together where the selectors are memoized.
MaxMemoEntries == 2

\* The slugs a group is looked up by, and the ids of the groups of the API.
Slugs == {"soapbox", "gleasonator", "spinster"}
Groups == {"1", "2"}

\* What the stubbed API does with a lookup: nothing stubbed, a network error, or
\* reply(200, group).
NotStubbed == "notStubbed"
NetworkError == "networkError"
Replies == {NotStubbed, NetworkError} \cup Groups

\* No lookup has been made.
NoRequest == [phase |-> "none", slug |-> Undefined, reply |-> NotStubbed]

\* The items of a paginated query.
Items == {"x", "y", "z"}

\* Most pages of the cached query, and most items of its first page.
MaxPages == 2
MaxPageItems == 3

\* The results a fetched page arrives with.
PageResults ==
  {<<>>} \cup {<<i>> : i \in Items} \cup {<<i, j>> : i \in Items, j \in Items}

\* queryClient holds nothing under the query key.
NoData == [present |-> FALSE, pages |-> <<>>]

\* Most entries of both maps together where the list is moved through.
MaxMoveEntries == 3

\* Nothing has been selected by a key press.
NoSelection == [key |-> "none", id |-> Undefined, index |-> 0]

\* Most requests Thread sends.
MaxFetches == 3

\* useState<string>(): no cursor. A cursor is written with the status and the
\* request it was returned for; `more` tells a cursor from the undefined of a
\* last page.
NoCursor == [statusId |-> Undefined, serial |-> 0, more |-> FALSE]

\* The accounts familiar followers are fetched of.
AccountIds == {"1", "2"}

\* Most calls of fetchAccountFamiliarFollowers.
MaxCalls == 3

FAMILIAR_FOLLOWERS_FETCH_REQUEST == "FAMILIAR_FOLLOWERS_FETCH_REQUEST"
FAMILIAR_FOLLOWERS_FETCH_SUCCESS == "FAMILIAR_FOLLOWERS_FETCH_SUCCESS"
FAMILIAR_FOLLOWERS_FETCH_FAIL == "FAMILIAR_FOLLOWERS_FETCH_FAIL"

\* The action importFetchedAccounts(accounts) stands for.
ACCOUNTS_IMPORT == "ACCOUNTS_IMPORT"

\* The characters of the compose text: a blank and a letter.
Chars == {" ", "a"}

\* Longest compose text, and most actions the reply and quote handlers and
\* their modals dispatch.
MaxText == 2
MaxComposed == 3

\* The statuses replied to or quoted.
ComposeStatuses == {"A", "B"}

\* No action, and no modal open.
NoAction == [type |-> "none", status |-> Undefined]
NoModal == [type |-> "none", onConfirm |-> NoAction]

\* Longest work queue `ids` that is followed; a longer one is left unexpanded.
MaxQueue == 8

---------------------------------------------------------------------------
\* ImmutableOrderedSet operations, on duplicate-free sequences.

ToSet(s) == {s[i] : i \in DOMAIN s}

\* An includes that never finds the id.
IncludesNever(s, x) == FALSE

\* OrderedSet.includes
Includes(s, x) == x \in ToSet(s)

\* OrderedSet.union: the elements of s, then those of t that s lacks.
Union(s, t) == s \o SelectSeq(t, LAMBDA e : ~Includes(s, e))

\* OrderedSet.delete
Delete(s, x) == SelectSeq(s, LAMBDA e : e # x)

\* A subtract that removes nothing.
SubtractNothing(s, t) == s

\* OrderedSet.subtract
Subtract(s, t) == SelectSeq(s, LAMBDA e : ~Includes(t, e))

\* OrderedSet.reverse: a new set, the receiver is left as it is.
Reverse(s) == [i \in 1..Len(s) |-> s[Len(s) + 1 - i]]

\* The receiver of an Array.reverse() after the call: reversed in place.
ReceiverReversedInPlace(s) == Reverse(s)

\* The receiver of reverse() after the call: an ImmutableOrderedSet is left as
\* it is (an Array would now be reversed).
ReceiverAfterReverse(s) == s

\* replies.forEach(reply => ids.unshift(reply))
RECURSIVE UnshiftEach(_, _)
UnshiftEach(queue, rs) ==
  IF rs = <<>> THEN queue ELSE UnshiftEach(<<Head(rs)>> \o queue, Tail(rs))

\* JavaScript truthiness of `id`: undefined is falsy, a status id is truthy.
Truthy(x) == x # Undefined

---------------------------------------------------------------------------
\* The store.

NumParents == Cardinality({c \in Ids : inReplyTos[c] # Undefined})

\* The replies of x as a set: none when x has no entry.
Kids(x) == IF replies[x] = NoReplies THEN {} ELSE ToSet(replies[x])

NumReplyEdges == Cardinality({e \in Ids \X Ids : e[2] \in Kids(e[1])})

\* How many more entries the store takes.
Room == MaxEntries - (NumParents + NumReplyEdges)

\* The selectors run to completion: the store changes only between two runs.
Quiescent == pc \in {"idle", "done"}

\* A fetch records that status c replies to status p.
ImportInReplyTo ==
  /\ pc = "idle"
  /\ Room > 0
  /\ \E c \in Ids, p \in Ids :
       /\ inReplyTos[c] = Undefined
       /\ inReplyTos' = [inReplyTos EXCEPT ![c] = p]
  /\ UNCHANGED <<replies, pc, statusId, id, ancestorsIds, ids, descendantsIds>>
  /\ UNCHANGED <<expanded, outside>>

\* A fetch adds status c to the replies of status p.
ImportReply ==
  /\ pc = "idle"
  /\ Room > 0
  /\ \E p \in Ids, c \in Ids :
       /\ c \notin Kids(p)
       /\ replies' = [replies EXCEPT ![p] = IF @ = NoReplies THEN <<c>> ELSE Union(@, <<c>>)]
  /\ UNCHANGED <<inReplyTos, pc, statusId, id, ancestorsIds, ids, descendantsIds>>
  /\ UNCHANGED <<expanded, outside>>

---------------------------------------------------------------------------
\* getAncestorsIds

\* The loop condition without its cycle check: while (id)
AncestorsContinueUnchecked(x, acc) == Truthy(x)

\* The loop condition: id && !ancestorsIds.includes(id)
AncestorsContinue(x, acc) == Truthy(x) /\ ~Includes(acc, x)

\* The id added behind the ancestors found so far: ancestorsIds.union([id])
AncestorsAddBehind(x, acc) == Union(acc, <<x>>)

\* ancestorsIds = ImmutableOrderedSet([id]).union(ancestorsIds)
AncestorsAdd(x, acc) == Union(<<x>>, acc)

\* getDescendantsIds

\* The cycle check: descendantsIds.includes(id)
DescendantsSeen(x, acc) == Includes(acc, x)

\* Without the comparison with statusId: descendantsIds = descendantsIds.union([id])
DescendantsAddAlways(sid, x, acc) == Union(acc, <<x>>)

\* if (statusId !== id) descendantsIds = descendantsIds.union([id])
DescendantsAdd(sid, x, acc) == IF sid # x THEN Union(acc, <<x>>) ELSE acc

\* The replies put behind the waiting ids: replies.forEach(reply => ids.push(reply))
DescendantsPushBehind(queue, rs) ==
  IF rs # NoReplies THEN queue \o rs ELSE queue

\* if (replies) replies.reverse().forEach(reply => ids.unshift(reply))
DescendantsPush(queue, rs) ==
  IF rs # NoReplies THEN UnshiftEach(queue, Reverse(rs)) ELSE queue

\* Thread

\* Without the delete: ancestorsIds.subtract(descendantsIds)
ThreadAncestorsKeepStatus(sid, anc, desc) == Subtract(anc, desc)

\* Without the subtract: ancestorsIds.delete(statusId)
ThreadAncestorsKeepCommon(sid, anc, desc) == Delete(anc, sid)

\* ancestorsIds = ancestorsIds.delete(statusId).subtract(descendantsIds)
ThreadAncestors(sid, anc, desc) == Subtract(Delete(anc, sid), desc)

\* descendantsIds = descendantsIds.delete(statusId).subtract(ancestorsIds)
ThreadDescendants(sid, anc, desc) == Subtract(Delete(desc, sid), anc)

\* createSelector
\* (cache of one result; the maps of the store are immutable, so the same
\* reference holds the same entries, and the same entries under another
\* reference only cost a recomputation of the same result)

\* The cache of a selector before its first call.
NoMemo(index) == [valid |-> FALSE, arg |-> Undefined, index |-> index, result |-> <<>>]

\* The cache of a selector after the call (arg, index) returned result.
Memo(arg, index, result) == [valid |-> TRUE, arg |-> arg, index |-> index, result |-> result]

\* A cache compared on the argument alone.
MemoHitByArgument(memo, arg, index) == memo.valid /\ memo.arg = arg

\* The cached result is returned when both input selectors give what they gave
\* for the cached call.
MemoHit(memo, arg, index) == memo.valid /\ memo.arg = arg /\ memo.index = index

\* No result is kept yet.
NothingKept ==
  [statusId |-> Undefined, ancestorsIds |-> <<>>, descendantsIds |-> <<>>, between |-> FALSE]

---------------------------------------------------------------------------
Init ==
  /\ inReplyTos = [c \in Ids |-> Undefined]
  /\ replies = [p \in Ids |-> NoReplies]
  /\ pc = "idle"
  /\ statusId = Undefined
  /\ id = Undefined
  /\ ancestorsIds = <<>>
  /\ ids = <<>>
  /\ descendantsIds = <<>>
  /\ expanded = {}
  /\ kept = NothingKept
  /\ memoAncestors = NoMemo([c \in Ids |-> Undefined])
  /\ memoDescendants = NoMemo([p \in Ids |-> NoReplies])
  /\ mock = [s \in Slugs |-> NotStubbed]
  /\ request = NoRequest
  /\ isFetching = FALSE
  /\ entity = Undefined
  /\ data = NoData
  /\ selected = NoSelection
  /\ params = Undefined
  /\ statuses = {}
  /\ inFlight = {}
  /\ issued = 0
  /\ next = NoCursor
  /\ isLoaded = FALSE
  /\ calls = <<>>
  /\ actions = <<>>
  /\ composeText = <<>>
  /\ modal = NoModal
  /\ composed = <<>>

\* Without `let ancestorsIds = ImmutableOrderedSet()`: the set of the run before
\* is added to.
SelectThreadStale(sid, present) ==
  /\ Quiescent
  /\ statusId' = sid
  /\ descendantsIds' = <<>>
  /\ ids' = <<>>
  /\ IF present
       THEN id' = inReplyTos[sid] /\ pc' = "anc" /\ UNCHANGED ancestorsIds
       ELSE id' = Undefined /\ pc' = "done" /\ ancestorsIds' = <<>>
  /\ expanded' = {}
  /\ UNCHANGED <<inReplyTos, replies>>

\* The selector of Thread starts with statusId = sid, on a status it has found
\* or not: without a status both sets stay empty, with one it calls
\* getAncestorsIds(state, state.contexts.inReplyTos.get(statusId)).
SelectThread(sid, present) ==
  /\ Quiescent
  /\ statusId' = sid
  /\ ancestorsIds' = <<>>
  /\ descendantsIds' = <<>>
  /\ ids' = <<>>
  /\ IF present
       THEN id' = inReplyTos[sid] /\ pc' = "anc"
       ELSE id' = Undefined /\ pc' = "done"
  /\ expanded' = {}
  /\ UNCHANGED <<inReplyTos, replies>>

\* A run of the selector of Thread starts.
Select ==
  /\ \E sid \in Ids, present \in BOOLEAN : SelectThread(sid, present)
  /\ UNCHANGED outside

\* One iteration of the loop of getAncestorsIds.
AncestorsLoop ==
  /\ pc = "anc"
  /\ AncestorsContinue(id, ancestorsIds)
  /\ ancestorsIds' = AncestorsAdd(id, ancestorsIds)
  /\ id' = inReplyTos[id]
  /\ UNCHANGED <<inReplyTos, replies, pc, statusId, ids, descendantsIds>>
  /\ UNCHANGED <<expanded, outside>>

\* getAncestorsIds returns; Thread calls getDescendantsIds(state, statusId).
AncestorsReturn ==
  /\ pc = "anc"
  /\ ~AncestorsContinue(id, ancestorsIds)
  /\ id' = Undefined
  /\ ids' = <<statusId>>
  /\ descendantsIds' = <<>>
  /\ pc' = "desc"
  /\ UNCHANGED <<inReplyTos, replies, statusId, ancestorsIds>>
  /\ UNCHANGED <<expanded, outside>>

\* while (ids.length > 0) { const id = ids.shift(); ...
DescendantsShift ==
  /\ pc = "desc"
  /\ ids # <<>>
  /\ id' = Head(ids)
  /\ ids' = Tail(ids)
  /\ pc' = IF Truthy(Head(ids)) THEN "body" ELSE "dedup"
  /\ UNCHANGED <<inReplyTos, replies, statusId, ancestorsIds, descendantsIds>>
  /\ UNCHANGED <<expanded, outside>>

\* The work queue after the body of the loop has run for `id`.
QueueAfter == DescendantsPush(ids, replies[id])

\* The rest of the loop body: the cycle check, the id, its replies.
DescendantsBody ==
  /\ pc = "body"
  /\ IF DescendantsSeen(id, descendantsIds)
       THEN /\ pc' = "dedup"
            /\ UNCHANGED <<replies, ids, descendantsIds, expanded>>
       ELSE /\ Len(QueueAfter) <= MaxQueue
            /\ descendantsIds' = DescendantsAdd(statusId, id, descendantsIds)
            /\ ids' = QueueAfter
            /\ replies' = [replies EXCEPT ![id] = ReceiverAfterReverse(@)]
            /\ expanded' = expanded \cup {id}
            /\ pc' = "desc"
  /\ id' = Undefined
  /\ UNCHANGED <<inReplyTos, statusId, ancestorsIds>>
  /\ UNCHANGED outside

\* The loop of getDescendantsIds ends with the queue empty.
DescendantsReturn ==
  /\ pc = "desc"
  /\ ids = <<>>
  /\ pc' = "dedup"
  /\ UNCHANGED <<inReplyTos, replies, statusId, id, ancestorsIds, ids, descendantsIds>>
  /\ UNCHANGED <<expanded, outside>>

\* Both sets cleaned against what the selectors returned, not one after the other.
ThreadDedupFromReturned ==
  /\ pc = "dedup"
  /\ ancestorsIds' = ThreadAncestors(statusId, ancestorsIds, descendantsIds)
  /\ descendantsIds' = ThreadDescendants(statusId, ancestorsIds, descendantsIds)
  /\ ids' = <<>>
  /\ pc' = "done"
  /\ UNCHANGED <<inReplyTos, replies, statusId, id>>
  /\ UNCHANGED <<expanded, outside>>

\* Thread removes the status and the common ids from the two sets.
ThreadDedup ==
  /\ pc = "dedup"
  /\ ancestorsIds' = ThreadAncestors(statusId, ancestorsIds, descendantsIds)
  /\ descendantsIds' =
       ThreadDescendants(statusId,
                         ThreadAncestors(statusId, ancestorsIds, descendantsIds),
                         descendantsIds)
  /\ ids' = <<>>
  /\ pc' = "done"
  /\ UNCHANGED <<inReplyTos, replies, statusId, id>>
  /\ UNCHANGED <<expanded, outside>>

\* renderChildren: one element for each id of the list, in its order.
RenderChildren(list) == [i \in DOMAIN list |-> [key |-> list[i], element |-> "ThreadStatus"]]

\* focusedStatus
FocusedStatus == [key |-> statusId, element |-> "DetailedStatus"]

\* The focused status put first, the ancestors behind it.
ChildrenFocusedFirst ==
  <<FocusedStatus>> \o RenderChildren(ancestorsIds) \o RenderChildren(descendantsIds)

\* children: what Thread hands to ScrollableList.
Children ==
  (IF Len(ancestorsIds) > 0 THEN RenderChildren(ancestorsIds) ELSE <<>>)
    \o <<FocusedStatus>>
    \o (IF Len(descendantsIds) > 0 THEN RenderChildren(descendantsIds) ELSE <<>>)

\* initialTopMostItemIndex={ancestorsIds.size}, counted from 0
InitialTopMostItemIndex == Len(ancestorsIds)

\* scroller.current?.scrollToIndex({ index: ancestorsIds.size }), counted from 0
ScrollToIndex == Len(ancestorsIds)

\* The steps of one run of the selector of Thread.
Resolve ==
  \/ AncestorsLoop
  \/ AncestorsReturn
  \/ DescendantsShift
  \/ DescendantsBody
  \/ DescendantsReturn
  \/ ThreadDedup

\* The result the selector of Thread returned is kept, once, to compare the
\* results of later runs with.
Keep ==
  /\ pc = "done"
  /\ kept = NothingKept
  /\ kept' = [statusId |-> statusId, ancestorsIds |-> ancestorsIds,
              descendantsIds |-> descendantsIds, between |-> FALSE]
  /\ UNCHANGED <<threadVars, outsideRerun>>

\* A run of the selector of Thread on a status it finds; `between` tells that a
\* run for another status came after the kept one.
SelectStatus ==
  /\ \E sid \in Ids :
       /\ SelectThread(sid, TRUE)
       /\ kept' = IF kept.statusId \notin {Undefined, sid}
                    THEN [kept EXCEPT !.between = TRUE]
                    ELSE kept
  /\ UNCHANGED outsideRerun

\* What the memoized selectors leave alone.
outsideMemo == <<kept, mock, request, isFetching, entity, data, viewVars>>

\* Thread calls getDescendantsIds(state, sid): the cached result, or a run.
CallGetDescendantsIds(sid) ==
  IF MemoHit(memoDescendants, sid, replies)
    THEN descendantsIds' = memoDescendants.result /\ ids' = <<>> /\ pc' = "dedup"
    ELSE descendantsIds' = <<>> /\ ids' = <<sid>> /\ pc' = "desc"

\* The selector of Thread starts on a status it finds and calls
\* getAncestorsIds(state, state.contexts.inReplyTos.get(statusId)): the cached
\* result, or a run.
MemoSelect ==
  /\ Quiescent
  /\ \E sid \in Ids :
       /\ statusId' = sid
       /\ IF MemoHit(memoAncestors, inReplyTos[sid], inReplyTos)
            THEN /\ ancestorsIds' = memoAncestors.result
                 /\ id' = Undefined
                 /\ CallGetDescendantsIds(sid)
            ELSE /\ ancestorsIds' = <<>>
                 /\ id' = inReplyTos[sid]
                 /\ descendantsIds' = <<>>
                 /\ ids' = <<>>
                 /\ pc' = "anc"
  /\ expanded' = {}
  /\ UNCHANGED <<inReplyTos, replies, memoAncestors, memoDescendants, outsideMemo>>

\* getAncestorsIds returns and caches its result; Thread calls
\* getDescendantsIds(state, statusId).
MemoAncestorsReturn ==
  /\ pc = "anc"
  /\ ~AncestorsContinue(id, ancestorsIds)
  /\ memoAncestors' = Memo(inReplyTos[statusId], inReplyTos, ancestorsIds)
  /\ id' = Undefined
  /\ CallGetDescendantsIds(statusId)
  /\ UNCHANGED <<inReplyTos, replies, statusId, ancestorsIds, expanded>>
  /\ UNCHANGED <<memoDescendants, outsideMemo>>

\* getDescendantsIds has returned, from its cache or caching its result; Thread
\* removes the status and the common ids from its own two sets.
MemoThreadDedup ==
  /\ pc = "dedup"
  /\ memoDescendants' = Memo(statusId, replies, descendantsIds)
  /\ ancestorsIds' = ThreadAncestors(statusId, ancestorsIds, descendantsIds)
  /\ descendantsIds' =
       ThreadDescendants(statusId,
                         ThreadAncestors(statusId, ancestorsIds, descendantsIds),
                         descendantsIds)
  /\ ids' = <<>>
  /\ pc' = "done"
  /\ UNCHANGED <<inReplyTos, replies, statusId, id, expanded>>
  /\ UNCHANGED <<memoAncestors, outsideMemo>>

\* Thread has rendered: the store may change before the selector runs again.
AwaitStore ==
  /\ pc = "done"
  /\ pc' = "idle"
  /\ UNCHANGED <<inReplyTos, replies, statusId, id, ancestorsIds, ids, descendantsIds>>
  /\ UNCHANGED <<expanded, outside>>

\* What the selectors and the group lookup have in common: nothing.
outsideLookup == <<threadVars, kept, memoAncestors, memoDescendants, data, viewVars>>

\* __stub(mock => mock.onGet(`/api/v1/groups/lookup?name=${slug}`)...), before a
\* hook is rendered.
Stub ==
  /\ request.phase # "pending"
  /\ \E s \in Slugs, r \in {NetworkError} \cup Groups :
       /\ mock[s] # r
       /\ mock' = [mock EXCEPT ![s] = r]
  /\ UNCHANGED <<request, isFetching, entity, outsideLookup>>

\* renderHook(() => useGroupLookup(slug)): the lookup is sent.
RenderHook ==
  /\ request.phase # "pending"
  /\ \E s \in Slugs : request' = [phase |-> "pending", slug |-> s, reply |-> NotStubbed]
  /\ isFetching' = TRUE
  /\ entity' = Undefined
  /\ UNCHANGED <<mock, outsideLookup>>

\* The entity of a lookup whatever the API did.
LookupEntityOfAnyReply(r) == r

\* The entity of a settled lookup: the group of a 200, undefined after an error.
LookupEntity(r) == IF r \in Groups THEN r ELSE Undefined

\* The API answers 200 with the group.
LookupSucceeds ==
  /\ request.phase = "pending"
  /\ mock[request.slug] \in Groups
  /\ request' = [request EXCEPT !.phase = "settled", !.reply = mock[request.slug]]
  /\ isFetching' = FALSE
  /\ entity' = LookupEntity(mock[request.slug])
  /\ UNCHANGED <<mock, outsideLookup>>

\* The request fails: a network error, or no handler for the url.
LookupFails ==
  /\ request.phase = "pending"
  /\ mock[request.slug] \notin Groups
  /\ request' = [request EXCEPT !.phase = "settled", !.reply = mock[request.slug]]
  /\ isFetching' = FALSE
  /\ entity' = LookupEntity(mock[request.slug])
  /\ UNCHANGED <<mock, outsideLookup>>

\* What the cached query has in common with the rest: nothing.
outsidePages ==
  <<threadVars, kept, memoAncestors, memoDescendants, mock, request, isFetching, entity,
    viewVars>>

\* The infinite query fetches a page: its first, or one more behind the others.
FetchPage ==
  /\ Len(data.pages) < MaxPages
  /\ \E r \in PageResults :
       data' = [present |-> TRUE, pages |-> Append(data.pages, r)]
  /\ UNCHANGED outsidePages

\* The updater of appendPageItem on cached data:
\* pages[0] = { ...pages[0], result: [...pages[0].result, newItem] }
AppendedTo(d, newItem) ==
  [d EXCEPT !.pages = [@ EXCEPT ![1] = Append(@, newItem)]]

\* appendPageItem(queryKey, newItem): setQueryData with the updater, which
\* returns nothing for a key without data.
AppendPageItem ==
  /\ data.present => Len(data.pages[1]) < MaxPageItems
  /\ \E newItem \in Items :
       data' = IF data.present THEN AppendedTo(data, newItem) ELSE data
  /\ UNCHANGED outsidePages

\* ImmutableList(list).indexOf(x), counted from 0; -1 for an x the list lacks.
IndexOf(list, x) ==
  IF \E i \in DOMAIN list : list[i] = x
    THEN (CHOOSE i \in DOMAIN list : list[i] = x /\ \A j \in 1..(i - 1) : list[j] # x) - 1
    ELSE -1

\* The index handleMoveDown selects, a descendant taken as one place higher.
MoveDownIndexOffByOne(x) ==
  IF x = statusId
    THEN Len(ancestorsIds) + 1
    ELSE IF IndexOf(ancestorsIds, x) = -1
           THEN Len(ancestorsIds) + IndexOf(descendantsIds, x) + 1
           ELSE IndexOf(ancestorsIds, x) + 1

\* The index handleMoveUp(x) hands to _selectChild.
MoveUpIndex(x) ==
  IF x = statusId
    THEN Len(ancestorsIds) - 1
    ELSE IF IndexOf(ancestorsIds, x) = -1
           THEN Len(ancestorsIds) + IndexOf(descendantsIds, x)
           ELSE IndexOf(ancestorsIds, x) - 1

\* The index handleMoveDown(x) hands to _selectChild.
MoveDownIndex(x) ==
  IF x = statusId
    THEN Len(ancestorsIds) + 1
    ELSE IF IndexOf(ancestorsIds, x) = -1
           THEN Len(ancestorsIds) + IndexOf(descendantsIds, x) + 2
           ELSE IndexOf(ancestorsIds, x) + 1

\* The ids of the elements of children, in their order.
ChildrenKeys == [i \in DOMAIN Children |-> Children[i].key]

\* What a key press on an element of the list leaves alone.
outsideMove == <<threadVars, hookVars, fetchVars, followersVars, composeVars>>

\* The hotkey moveUp on the element of x: handleMoveUp(x).
HandleMoveUp ==
  /\ pc = "done"
  /\ selected = NoSelection
  /\ \E x \in ToSet(ChildrenKeys) :
       selected' = [key |-> "up", id |-> x, index |-> MoveUpIndex(x)]
  /\ UNCHANGED outsideMove

\* The hotkey moveDown on the element of x: handleMoveDown(x).
HandleMoveDown ==
  /\ pc = "done"
  /\ selected = NoSelection
  /\ \E x \in ToSet(ChildrenKeys) :
       selected' = [key |-> "down", id |-> x, index |-> MoveDownIndex(x)]
  /\ UNCHANGED outsideMove

\* What the requests of Thread leave alone.
outsideFetch == <<threadVars, hookVars, moveVars, followersVars, composeVars>>

\* const status = useAppSelector(state => getStatus(state, { id: props.params.statusId }))
StatusPresent == params \in statuses

\* A call of fetchData for the status sid; fromEffect tells the call of the
\* effect, whose settling sets isLoaded, from the call of handleRefresh.
FetchDataRequest(sid, fromEffect) ==
  [kind |-> "fetchData", statusId |-> sid, serial |-> issued + 1,
   fromEffect |-> fromEffect, cursor |-> NoCursor]

\* A status reaches the store by another way than Thread's requests.
ImportStatus ==
  /\ \E sid \in Ids \ statuses : statuses' = statuses \cup {sid}
  /\ UNCHANGED <<params, inFlight, issued, next, isLoaded, outsideFetch>>

\* Thread is mounted for the status sid: its state is initialised and the
\* effect calls fetchData.
Mount ==
  /\ params = Undefined
  /\ \E sid \in Ids :
       /\ params' = sid
       /\ isLoaded' = (sid \in statuses)
       /\ inFlight' = inFlight \cup {FetchDataRequest(sid, TRUE)}
  /\ next' = NoCursor
  /\ issued' = issued + 1
  /\ UNCHANGED <<statuses, outsideFetch>>

\* props.params.statusId changes: Thread keeps its state and the effect calls
\* fetchData for the new status.
ChangeStatusId ==
  /\ params # Undefined
  /\ issued < MaxFetches
  /\ \E sid \in Ids \ {params} :
       /\ params' = sid
       /\ inFlight' = inFlight \cup {FetchDataRequest(sid, TRUE)}
  /\ issued' = issued + 1
  /\ UNCHANGED <<statuses, next, isLoaded, outsideFetch>>

\* handleRefresh: fetchData()
HandleRefresh ==
  /\ params # Undefined
  /\ StatusPresent
  /\ issued < MaxFetches
  /\ inFlight' = inFlight \cup {FetchDataRequest(params, FALSE)}
  /\ issued' = issued + 1
  /\ UNCHANGED <<params, statuses, next, isLoaded, outsideFetch>>

\* handleLoadMore: if (next && status) dispatch(fetchNext(status.id, next))
HandleLoadMore ==
  /\ params # Undefined
  /\ next.more
  /\ StatusPresent
  /\ issued < MaxFetches
  /\ inFlight' = inFlight \cup
       {[kind |-> "fetchNext", statusId |-> params, serial |-> issued + 1,
         fromEffect |-> FALSE, cursor |-> next]}
  /\ issued' = issued + 1
  /\ UNCHANGED <<params, statuses, next, isLoaded, outsideFetch>>

\* A request is answered: setNext(next) with the cursor of the answer, and
\* setIsLoaded(true) behind the fetchData of the effect.
FetchSucceeds ==
  /\ \E r \in inFlight, more \in BOOLEAN :
       /\ inFlight' = inFlight \ {r}
       /\ statuses' = statuses \cup {r.statusId}
       /\ next' = [statusId |-> r.statusId, serial |-> r.serial, more |-> more]
       /\ isLoaded' = (isLoaded \/ r.fromEffect)
  /\ UNCHANGED <<params, issued, outsideFetch>>

\* A request fails: next stays, and setIsLoaded(true) behind the fetchData of
\* the effect.
FetchFails ==
  /\ \E r \in inFlight :
       /\ inFlight' = inFlight \ {r}
       /\ isLoaded' = (isLoaded \/ r.fromEffect)
  /\ UNCHANGED <<params, statuses, issued, next, outsideFetch>>

\* What Thread returns: the render guards, then the thread.
Rendered ==
  IF ~StatusPresent /\ isLoaded THEN "MissingIndicator"
  ELSE IF ~StatusPresent THEN "PlaceholderStatus"
  ELSE "Thread"

\* What fetchAccountFamiliarFollowers leaves alone.
outsideFollowers == <<threadVars, hookVars, moveVars, fetchVars, composeVars>>

\* An action dispatched by call number `call`, for the account accountId.
Dispatched(type, accountId, call) == [type |-> type, id |-> accountId, call |-> call]

\* fetchAccountFamiliarFollowers(accountId): REQUEST is dispatched and the API
\* is called.
FetchAccountFamiliarFollowers ==
  /\ Len(calls) < MaxCalls
  /\ \E accountId \in AccountIds :
       /\ calls' = Append(calls, [id |-> accountId, phase |-> "pending", entries |-> {}])
       /\ actions' = Append(actions,
                             Dispatched(FAMILIAR_FOLLOWERS_FETCH_REQUEST, accountId, Len(calls) + 1))
  /\ UNCHANGED outsideFollowers

\* The then handler dispatching before it looks for the entry of the account.
ThenDispatchesUnchecked(accountId, call, entries) ==
  <<Dispatched(ACCOUNTS_IMPORT, accountId, call),
    Dispatched(FAMILIAR_FOLLOWERS_FETCH_SUCCESS, accountId, call)>>

\* What the then handler dispatches for the data of a response, given as the
\* ids its entries are for: data.find(...).accounts throws before any dispatch
\* when no entry is for accountId.
ThenDispatches(accountId, call, entries) ==
  IF accountId \in entries
    THEN <<Dispatched(ACCOUNTS_IMPORT, accountId, call),
           Dispatched(FAMILIAR_FOLLOWERS_FETCH_SUCCESS, accountId, call)>>
    ELSE <<>>

\* The then handler throws: data.find(...) is undefined.
ThenThrows(accountId, entries) == accountId \notin entries

\* .catch(error => dispatch({ type: FAMILIAR_FOLLOWERS_FETCH_FAIL, id: accountId, error }))
CatchDispatches(accountId, call) ==
  <<Dispatched(FAMILIAR_FOLLOWERS_FETCH_FAIL, accountId, call)>>

\* The API answers call i with data: the then handler runs, and the catch
\* handler when it throws.
FamiliarFollowersResolve ==
  /\ \E i \in DOMAIN calls, entries \in SUBSET AccountIds :
       /\ calls[i].phase = "pending"
       /\ calls' = [calls EXCEPT ![i] = [@ EXCEPT !.phase = "resolved", !.entries = entries]]
       /\ actions' = actions \o ThenDispatches(calls[i].id, i, entries)
                        \o (IF ThenThrows(calls[i].id, entries)
                              THEN CatchDispatches(calls[i].id, i) ELSE <<>>)
  /\ UNCHANGED outsideFollowers

\* The API call of call i is rejected: the catch handler runs.
FamiliarFollowersReject ==
  /\ \E i \in DOMAIN calls :
       /\ calls[i].phase = "pending"
       /\ calls' = [calls EXCEPT ![i] = [@ EXCEPT !.phase = "rejected"]]
       /\ actions' = actions \o CatchDispatches(calls[i].id, i)
  /\ UNCHANGED outsideFollowers

\* What the reply and quote handlers leave alone.
outsideCompose == <<threadVars, hookVars, moveVars, fetchVars, followersVars>>

\* String.trim on the left: the text without its leading blanks.
RECURSIVE TrimStart(_)
TrimStart(t) == IF t # <<>> /\ Head(t) = " " THEN TrimStart(Tail(t)) ELSE t

\* String.trim: the text without its leading and trailing blanks.
Trim(t) == Reverse(TrimStart(Reverse(TrimStart(t))))

\* The text taken as it is: state.compose.text.length !== 0
AskReplyConfirmationUntrimmed(t) == Len(t) # 0

\* askReplyConfirmation: state.compose.text.trim().length !== 0
AskReplyConfirmation(t) == Len(Trim(t)) # 0

\* The compose text changes.
ChangeComposeText ==
  /\ \E t \in UNION {[1..n -> Chars] : n \in 0..MaxText} :
       /\ t # composeText
       /\ composeText' = t
  /\ UNCHANGED <<modal, composed, outsideCompose>>

\* An action dispatched through `by`, with the askReplyConfirmation of Thread
\* at that moment.
Composed(type, status, by) ==
  [type |-> type, status |-> status, by |-> by, blank |-> Len(Trim(composeText)) = 0]

\* A handler for the compose action `type`: the CONFIRM modal when
\* askReplyConfirmation, else the action at once.
HandleComposeClick(type, status, by) ==
  /\ modal = NoModal
  /\ Len(composed) < MaxComposed
  /\ IF AskReplyConfirmation(composeText)
       THEN /\ modal' = [type |-> "CONFIRM", onConfirm |-> [type |-> type, status |-> status]]
            /\ composed' = Append(composed, Composed("MODAL_OPEN", status, by))
       ELSE /\ modal' = modal
            /\ composed' = Append(composed, Composed(type, status, by))

\* handleReplyClick(status)
HandleReplyClick ==
  /\ \E status \in ComposeStatuses :
       HandleComposeClick("replyCompose", status, "handleReplyClick")
  /\ UNCHANGED <<composeText, outsideCompose>>

\* handleQuoteClick(status)
HandleQuoteClick ==
  /\ \E status \in ComposeStatuses :
       HandleComposeClick("quoteCompose", status, "handleQuoteClick")
  /\ UNCHANGED <<composeText, outsideCompose>>

\* The CONFIRM modal is confirmed: onConfirm dispatches the compose action.
ModalConfirm ==
  /\ modal # NoModal
  /\ Len(composed) < MaxComposed
  /\ composed' = Append(composed, Composed(modal.onConfirm.type, modal.onConfirm.status, "onConfirm"))
  /\ modal' = NoModal
  /\ UNCHANGED <<composeText, outsideCompose>>

\* The CONFIRM modal is closed without confirming.
ModalCancel ==
  /\ modal # NoModal
  /\ modal' = NoModal
  /\ UNCHANGED <<composeText, composed, outsideCompose>>

Next ==
  \/ ImportInReplyTo
  \/ ImportReply
  \/ Select
  \/ Resolve

Spec == Init /\ [][Next]_vars

\* A selector is synchronous code: once called it runs on.
FairSpec == Spec /\ WF_vars(Resolve)

\* The store holds no replies: only inReplyTos is filled.
NextAnc ==
  \/ ImportInReplyTo
  \/ Select
  \/ Resolve

SpecAnc == Init /\ [][NextAnc]_vars

FairSpecAnc == SpecAnc /\ WF_vars(Resolve)

\* Several runs over one store, the result of one of them kept.
NextRerun ==
  \/ NumParents + NumReplyEdges < MaxRerunEntries /\ ImportInReplyTo
  \/ NumParents + NumReplyEdges < MaxRerunEntries /\ ImportReply
  \/ SelectStatus
  \/ Keep
  \/ Resolve

SpecRerun == Init /\ [][NextRerun]_vars

\* The memoized selectors over a store that changes between their runs.
NextMemo ==
  \/ NumParents + NumReplyEdges < MaxMemoEntries /\ ImportInReplyTo
  \/ NumParents + NumReplyEdges < MaxMemoEntries /\ ImportReply
  \/ MemoSelect
  \/ AncestorsLoop
  \/ MemoAncestorsReturn
  \/ DescendantsShift
  \/ DescendantsBody
  \/ DescendantsReturn
  \/ MemoThreadDedup
  \/ AwaitStore

SpecMemo == Init /\ [][NextMemo]_vars

\* Group lookups against the stubbed API.
NextLookup ==
  \/ Stub
  \/ RenderHook
  \/ LookupSucceeds
  \/ LookupFails

SpecLookup == Init /\ [][NextLookup]_vars

\* The stubbed API answers every request it gets.
FairSpecLookup == SpecLookup /\ WF_vars(LookupSucceeds) /\ WF_vars(LookupFails)

\* The cached paginated query.
NextPages ==
  \/ FetchPage
  \/ AppendPageItem

SpecPages == Init /\ [][NextPages]_vars

\* The thread of a status that is found, resolved and moved through by keys.
NextMove ==
  \/ NumParents + NumReplyEdges < MaxMoveEntries /\ ImportInReplyTo
  \/ NumParents + NumReplyEdges < MaxMoveEntries /\ ImportReply
  \/ selected = NoSelection /\ SelectStatus
  \/ Resolve
  \/ HandleMoveUp
  \/ HandleMoveDown

SpecMove == Init /\ [][NextMove]_vars

\* Thread and its requests.
NextFetch ==
  \/ ImportStatus
  \/ Mount
  \/ ChangeStatusId
  \/ HandleRefresh
  \/ HandleLoadMore
  \/ FetchSucceeds
  \/ FetchFails

SpecFetch == Init /\ [][NextFetch]_vars

\* Calls of fetchAccountFamiliarFollowers and their answers.
NextFollowers ==
  \/ FetchAccountFamiliarFollowers
  \/ FamiliarFollowersResolve
  \/ FamiliarFollowersReject

SpecFollowers == Init /\ [][NextFollowers]_vars

\* Reply and quote in Thread.
NextCompose ==
  \/ ChangeComposeText
  \/ HandleReplyClick
  \/ HandleQuoteClick
  \/ ModalConfirm
  \/ ModalCancel

SpecCompose == Init /\ [][NextCompose]_vars

---------------------------------------------------------------------------
\* Notions the properties are stated with.

NoDuplicates(s) == \A i, j \in DOMAIN s : s[i] = s[j] => i = j

\* getAncestorsIds has returned to Thread and Thread has not yet changed its result.
AncestorsReturned == pc \in {"desc", "body", "dedup"}

\* getDescendantsIds has returned to Thread and Thread has not yet changed its result.
DescendantsReturned == pc = "dedup"

\* The ids S and everything listed below them in replies.
RECURSIVE Closure(_)
Closure(S) ==
  LET T == S \cup UNION {Kids(x) : x \in S}
  IN IF T = S THEN S ELSE Closure(T)

\* The ids reachable from x through replies.
Reachable(x) == Closure(Kids(x))

\* The parent of x, its parent, and so on.
RECURSIVE ParentClosure(_)
ParentClosure(S) ==
  LET T == S \cup ({inReplyTos[x] : x \in S} \ {Undefined})
  IN IF T = S THEN S ELSE ParentClosure(T)

Ancestors(x) == ParentClosure({inReplyTos[x]} \ {Undefined})

\* The ids that occur in inReplyTos, as a key or as a value.
ParentIndexIds ==
  {c \in Ids : inReplyTos[c] # Undefined} \cup ({inReplyTos[c] : c \in Ids} \ {Undefined})

\* The work queue would outgrow what the model follows.
QueueOverflow == pc = "body" /\ ~DescendantsSeen(id, descendantsIds) /\ Len(QueueAfter) > MaxQueue

---------------------------------------------------------------------------
\* C1: whatever inReplyTos and replies hold, the ancestorsIds and descendantsIds
\* Thread ends with share no id, and neither holds the status id.
C1_DisjointWithoutStatus ==
  pc = "done" =>
    /\ ToSet(ancestorsIds) \cap ToSet(descendantsIds) = {}
    /\ ~Includes(ancestorsIds, statusId)
    /\ ~Includes(descendantsIds, statusId)

\* An id that is the parent of the status in inReplyTos and a reply to it in replies.
C1_Witness ==
  /\ pc = "done"
  /\ \E x \in Ids \ {statusId} :
       /\ inReplyTos[statusId] = x
       /\ x \in Kids(statusId)
       /\ Includes(descendantsIds, x)

\* C2: getDescendantsIds, once called, returns, also when replies holds a cycle
\* or lists an id (the status id too) among its own replies.
C2_DescendantsTerminate ==
  (pc \in {"desc", "body"}) ~> (pc = "dedup" \/ QueueOverflow)

\* C3: getAncestorsIds, once called, returns, also when inReplyTos holds a cycle
\* or a self-parent, and its result is never longer than the number of ids in
\* inReplyTos.
C3_AncestorsTerminate ==
  /\ (pc = "anc") ~> (pc = "desc")
  /\ [](Len(ancestorsIds) <= Cardinality(ParentIndexIds))

\* getAncestorsIds has returned on a cycle of two parents.
C3_Witness ==
  /\ pc = "desc"
  /\ \E x \in Ids \ {statusId} :
       /\ inReplyTos[statusId] = x
       /\ inReplyTos[x] = statusId
       /\ ancestorsIds = <<statusId, x>>

\* replies holds no cycle: no id is reachable from itself.
AcyclicReplies == \A x \in Ids : x \notin Reachable(x)

\* C4: without a cycle in replies (an id may be listed under two ids),
\* getDescendantsIds returns every id reachable from the status id, each once.
C4_AllReachableOnce ==
  (DescendantsReturned /\ AcyclicReplies) =>
    /\ ToSet(descendantsIds) = Reachable(statusId)
    /\ NoDuplicates(descendantsIds)

\* replies is a tree: no cycle, and no id is listed under two ids.
TreeReplies ==
  /\ AcyclicReplies
  /\ \A c \in Ids : Cardinality({p \in Ids : c \in Kids(p)}) <= 1

\* The replies below x in pre-order: each reply, then all that is below it, then
\* its next sibling.
RECURSIVE PreOrder(_), PreOrderEach(_)
PreOrder(x) == PreOrderEach(replies[x])
PreOrderEach(rs) ==
  IF rs = <<>> THEN <<>>
  ELSE <<Head(rs)>> \o PreOrder(Head(rs)) \o PreOrderEach(Tail(rs))

\* C5: when replies is a tree, getDescendantsIds returns the replies below the
\* status in pre-order, siblings in the order replies lists them.
C5_PreOrder ==
  (DescendantsReturned /\ TreeReplies) => descendantsIds = PreOrder(statusId)

\* replies {A: [B, C], B: [D]} and status A give [B, D, C].
C5_Witness ==
  /\ DescendantsReturned
  /\ statusId = "A"
  /\ replies["A"] = <<"B", "C">>
  /\ replies["B"] = <<"D">>
  /\ descendantsIds = <<"B", "D", "C">>

\* inReplyTos holds no cycle: no id is among its own ancestors.
AcyclicParents == \A x \in Ids : x \notin Ancestors(x)

\* The number of parent links from x up to an id without a parent entry.
RECURSIVE Depth(_)
Depth(x) == IF inReplyTos[x] = Undefined THEN 0 ELSE 1 + Depth(inReplyTos[x])

\* C6: without a cycle in inReplyTos, what getAncestorsIds returns to Thread is as
\* long as the status is deep and runs root first: the first id has no parent
\* entry, every later id replies to the one before it, the last one is the
\* parent of the status.
C6_RootFirstChain ==
  (AncestorsReturned /\ AcyclicParents) =>
    /\ Len(ancestorsIds) = Depth(statusId)
    /\ ancestorsIds # <<>> =>
         /\ inReplyTos[ancestorsIds[1]] = Undefined
         /\ ancestorsIds[Len(ancestorsIds)] = inReplyTos[statusId]
    /\ \A i \in 2..Len(ancestorsIds) : inReplyTos[ancestorsIds[i]] = ancestorsIds[i - 1]

\* inReplyTos {B: A, C: B} and status C give [A, B].
C6_Witness ==
  /\ AncestorsReturned
  /\ statusId = "C"
  /\ inReplyTos["C"] = "B"
  /\ inReplyTos["B"] = "A"
  /\ inReplyTos["A"] = Undefined
  /\ ancestorsIds = <<"A", "B">>

\* C7 as stated: what getAncestorsIds returns never holds the status id, its own
\* cycle check stopping before the status id is added.
C7_TraversalOmitsStatus ==
  AncestorsReturned => ~Includes(ancestorsIds, statusId)

\* C7: the ancestorsIds Thread ends with never hold the status id.  What
\* getAncestorsIds returns holds it exactly when inReplyTos makes the status
\* its own ancestor: it is the delete(statusId) of Thread that removes it.
C7_ThreadOmitsStatus ==
  /\ pc = "done" => ~Includes(ancestorsIds, statusId)
  /\ AncestorsReturned =>
       (Includes(ancestorsIds, statusId) <=> statusId \in Ancestors(statusId))

\* Thread has finished for a status that inReplyTos makes its own ancestor.
C7_Witness ==
  /\ pc = "done"
  /\ statusId \in Ancestors(statusId)
  /\ inReplyTos[statusId] # statusId
  /\ ancestorsIds # <<>>

\* The ids both selectors returned to Thread.
CommonIds == ToSet(ancestorsIds) \cap ToSet(descendantsIds)

\* C8 as stated: Thread removes an id both selectors returned from the
\* descendants as well as from the ancestors.
C8_CommonIdsLeaveBoth ==
  [][pc = "dedup" =>
       \A x \in CommonIds : ~Includes(descendantsIds', x) /\ ~Includes(ancestorsIds', x)]_vars

\* C8: Thread removes an id both selectors returned from the ancestors only.
\* The descendants stay as getDescendantsIds returned them; the ancestors keep,
\* in their order, the ids that are neither the status id nor a descendant.
C8_CommonIdsLeaveAncestors ==
  [][pc = "dedup" =>
       /\ descendantsIds' = descendantsIds
       /\ ToSet(ancestorsIds') = ToSet(ancestorsIds) \ (ToSet(descendantsIds) \cup {statusId})
       /\ \A x \in CommonIds : Includes(descendantsIds', x) /\ ~Includes(ancestorsIds', x)]_vars

\* Thread has finished and an ancestor of the status per inReplyTos is among the
\* descendants, not among the ancestors.
C8_Witness ==
  /\ pc = "done"
  /\ \E x \in Ancestors(statusId) \ {statusId} :
       /\ Includes(descendantsIds, x)
       /\ ~Includes(ancestorsIds, x)
       /\ ancestorsIds # <<>>

\* C9: no id occurs twice in ancestorsIds, none twice in descendantsIds.
C9_NoDuplicates ==
  /\ NoDuplicates(ancestorsIds)
  /\ NoDuplicates(descendantsIds)

\* Thread has finished with a descendant that two expanded ids list as a reply,
\* or with a status on a cycle of inReplyTos.
C9_Witness ==
  /\ pc = "done"
  /\ \E c \in ToSet(descendantsIds) :
       \E p, q \in ToSet(descendantsIds) \cup {statusId} :
         p # q /\ c \in Kids(p) /\ c \in Kids(q)
  /\ \E x \in Ids : inReplyTos[x] # Undefined

\* What getAncestorsIds returned is the run of known parents next to the status:
\* empty without a parent entry, else ending in the parent of the status, each
\* id the parent of the next, the first one without a known parent of its own
\* that is not already in the run.
KnownAncestorRun ==
  /\ ancestorsIds = <<>> <=> inReplyTos[statusId] = Undefined
  /\ ancestorsIds # <<>> =>
       /\ ancestorsIds[Len(ancestorsIds)] = inReplyTos[statusId]
       /\ inReplyTos[ancestorsIds[1]] \in {Undefined} \cup ToSet(ancestorsIds)
  /\ \A i \in 2..Len(ancestorsIds) : inReplyTos[ancestorsIds[i]] = ancestorsIds[i - 1]

\* Every reply without replies of its own, listed under the status or under a
\* descendant, is among the descendants.
DanglingRepliesEmitted ==
  \A p \in ToSet(descendantsIds) \cup {statusId} :
    \A c \in Kids(p) \ {statusId} : Kids(c) = {} => Includes(descendantsIds, c)

\* C10: with ids missing from inReplyTos or replies, the two selectors return
\* the run of known ancestors next to the status, and every dangling reply.
C10_DegradesGracefully ==
  DescendantsReturned => (KnownAncestorRun /\ DanglingRepliesEmitted)

\* Neither map of the store has an entry.
EmptyStore == \A x \in Ids : inReplyTos[x] = Undefined /\ replies[x] = NoReplies

\* C11: with inReplyTos and replies empty, ancestorsIds and descendantsIds are
\* empty, whatever the status id.
C11_EmptyIndexes ==
  EmptyStore => (ancestorsIds = <<>> /\ descendantsIds = <<>>)

\* Thread has finished a run for a status over the empty store.
C11_Witness ==
  /\ pc = "done"
  /\ EmptyStore
  /\ expanded = {statusId}

\* C12: no step of the selectors changes inReplyTos or replies; the reversal of
\* a reply list leaves the list in replies in its order.
C12_InputsUnchanged ==
  [][pc' # "idle" => (inReplyTos' = inReplyTos /\ replies' = replies)]_vars

\* Thread has finished after reversing a list of two or more replies.
C12_Witness ==
  /\ pc = "done"
  /\ \E x \in expanded : Len(replies[x]) >= 2

\* The keys of the rendered elements, in order.
Keys(elements) == [i \in DOMAIN elements |-> elements[i].key]

\* C15: Thread renders the ancestors in order, the focused status, the
\* descendants in order; the focused status is at index ancestorsIds.size, the
\* index of initialTopMostItemIndex and of scrollToIndex; no id is rendered twice.
C15_RenderedList ==
  pc = "done" =>
    /\ Keys(Children) = ancestorsIds \o <<statusId>> \o descendantsIds
    /\ Children[InitialTopMostItemIndex + 1] = FocusedStatus
    /\ Children[ScrollToIndex + 1] = FocusedStatus
    /\ NoDuplicates(Keys(Children))

\* Thread renders two ancestors above and a descendant below the status.
C15_Witness ==
  /\ pc = "done"
  /\ Len(ancestorsIds) >= 2
  /\ descendantsIds # <<>>
  /\ statusId \in expanded

\* C18: when getDescendantsIds meets an id it has already added, the ids still
\* waiting in `ids` are processed all the same and are in what it returns.
C18_WaitingIdsProcessed ==
  DescendantsReturned =>
    \A i \in DOMAIN ids : ids[i] = statusId \/ Includes(descendantsIds, ids[i])

\* C19: in one run of getDescendantsIds no id, the status id included, has its
\* replies pushed onto `ids` twice.
C19_ExpandedOnce ==
  [][(pc = "body" /\ pc' = "desc") => id \notin expanded]_vars

\* s keeps the elements of t that it has, in the order t has them.
KeepsOrderOf(s, t) == s = SelectSeq(t, LAMBDA e : Includes(s, e))

\* C20: the cleaning of the two sets in Thread loses no id but the status id:
\* the ids of both sets together stay the same, and each set keeps its order.
C20_DedupLosesNoId ==
  [][pc = "dedup" =>
       /\ ToSet(ancestorsIds') \cup ToSet(descendantsIds') =
            (ToSet(ancestorsIds) \cup ToSet(descendantsIds)) \ {statusId}
       /\ KeepsOrderOf(ancestorsIds', ancestorsIds)
       /\ KeepsOrderOf(descendantsIds', descendantsIds)]_vars

\* Thread has finished with two descendants, one of them an ancestor of the
\* status per inReplyTos.
C20_Witness ==
  /\ pc = "done"
  /\ Len(descendantsIds) >= 2
  /\ \E x \in Ancestors(statusId) \ {statusId} : Includes(descendantsIds, x)

RECURSIVE FreshAncestorsFrom(_, _, _)
FreshAncestorsFrom(x, acc, index) ==
  IF AncestorsContinue(x, acc)
    THEN FreshAncestorsFrom(index[x], AncestorsAdd(x, acc), index)
    ELSE acc

FreshAncestors(x, index) == FreshAncestorsFrom(x, <<>>, index)

\* More iterations than a run of getDescendantsIds that returns can make.
Fuel == 2 * Cardinality(Ids) + 2

\* The result function of getDescendantsIds, run from the work queue `queue`
\* with the descendants acc; <<Undefined>> stands for a run that does not return.
RECURSIVE FreshDescendantsFrom(_, _, _, _, _)
FreshDescendantsFrom(sid, queue, acc, index, fuel) ==
  IF fuel = 0 THEN <<Undefined>>
  ELSE IF queue = <<>> THEN acc
  ELSE IF ~Truthy(Head(queue)) THEN acc
  ELSE IF DescendantsSeen(Head(queue), acc) THEN acc
  ELSE FreshDescendantsFrom(sid,
                            DescendantsPush(Tail(queue), index[Head(queue)]),
                            DescendantsAdd(sid, Head(queue), acc),
                            index, fuel - 1)

FreshDescendants(sid, index) == FreshDescendantsFrom(sid, <<sid>>, <<>>, index, Fuel)

\* What Thread makes of a fresh resolution over the store as it is now.
FreshThreadAncestors ==
  ThreadAncestors(statusId, FreshAncestors(inReplyTos[statusId], inReplyTos),
                  FreshDescendants(statusId, replies))

FreshThreadDescendants ==
  ThreadDescendants(statusId, FreshThreadAncestors, FreshDescendants(statusId, replies))

\* The step machine of the selectors returns what their result functions give.
ResultFunctions ==
  /\ AncestorsReturned => ancestorsIds = FreshAncestors(inReplyTos[statusId], inReplyTos)
  /\ DescendantsReturned => descendantsIds = FreshDescendants(statusId, replies)

\* C14: whatever index updates and changes of the status id came before, the
\* two sets Thread uses equal a fresh resolution for the current status id over
\* the current inReplyTos and replies: the memoized selectors serve no result
\* of an earlier status id or an earlier store.
C14_NeverStale ==
  /\ (pc = "dedup" /\ statusId # Undefined) =>
       /\ ancestorsIds = FreshAncestors(inReplyTos[statusId], inReplyTos)
       /\ descendantsIds = FreshDescendants(statusId, replies)
  /\ (pc = "done" /\ statusId # Undefined) =>
       /\ ancestorsIds = FreshThreadAncestors
       /\ descendantsIds = FreshThreadDescendants

\* Both selectors answer from their caches (nothing is expanded in this run, the
\* cache of getAncestorsIds holds the unchanged result), with a descendant to
\* serve, after the status of the run before was another one.
C14_Witness ==
  /\ pc = "dedup"
  /\ expanded = {}
  /\ descendantsIds # <<>>
  /\ ancestorsIds # <<>>
  /\ memoDescendants.result = descendantsIds

\* C16: a group lookup by slug settles: isFetching becomes false, and then
\* entity is the group the API returned when the request succeeded and
\* undefined when it failed with a network error.
C16_LookupSettles ==
  /\ isFetching ~> ~isFetching
  /\ []((request.phase = "settled" /\ ~isFetching) =>
         /\ request.reply \in Groups => entity = request.reply
         /\ request.reply = NetworkError => entity = Undefined)

\* A lookup that succeeded has settled with its group, while the stub for
\* another slug answers with a network error.
C16_Witness ==
  /\ request.phase = "settled"
  /\ ~isFetching
  /\ request.reply \in Groups
  /\ entity = request.reply
  /\ \E s \in Slugs : mock[s] = NetworkError

\* appendPageItem has changed the cached query in this step: the pages are as
\* many as before and the first has one item more.
PageItemAppended ==
  /\ data.present
  /\ Len(data'.pages) = Len(data.pages)
  /\ Len(data'.pages[1]) = Len(data.pages[1]) + 1

\* C17: appendPageItem puts the new item at the beginning of the first page:
\* behind the new first element the first page holds its old items in their
\* order, and the other pages are as they were.
C17_InsertsAtBeginning ==
  [][PageItemAppended =>
       /\ Tail(data'.pages[1]) = data.pages[1]
       /\ \A i \in 2..Len(data.pages) : data'.pages[i] = data.pages[i]]_vars

\* C21: for every id of the rendered list (ancestors, the focused status,
\* descendants) handleMoveUp selects the index just before the index of the
\* id in the list and handleMoveDown the index just after it.
C21_MovesToNeighbour ==
  /\ selected.key = "up" => selected.index = IndexOf(ChildrenKeys, selected.id) - 1
  /\ selected.key = "down" => selected.index = IndexOf(ChildrenKeys, selected.id) + 1

\* Move down from a descendant that is not the first, in a list with an ancestor.
C21_Witness ==
  /\ selected.key = "down"
  /\ IndexOf(descendantsIds, selected.id) >= 1
  /\ ancestorsIds # <<>>

\* C22: once every request has settled, the cursor `next` of Thread was
\* returned for the status now displayed, and handleLoadMore sends no cursor of
\* one status with the id of another.
C22_CursorOfDisplayedStatus ==
  /\ (params # Undefined /\ inFlight = {} /\ next # NoCursor) => next.statusId = params
  /\ \A r \in inFlight : r.kind = "fetchNext" => r.cursor.statusId = r.statusId

\* C23: the missing indicator is rendered only when the fetch of the effect
\* for the status now displayed has settled; while it is under way and the
\* status is absent, the placeholder is rendered.
C23_MissingOnlyWhenSettled ==
  (params # Undefined /\ ~StatusPresent /\
   \E r \in inFlight : r.fromEffect /\ r.statusId = params)
    => Rendered = "PlaceholderStatus"

\* The places of the log `actions` where call i dispatched an action of one of types.
DispatchedBy(i, types) == {k \in DOMAIN actions : actions[k].call = i /\ actions[k].type \in types}

Outcomes == {FAMILIAR_FOLLOWERS_FETCH_SUCCESS, FAMILIAR_FOLLOWERS_FETCH_FAIL}

ComposeActions == {"replyCompose", "quoteCompose"}

\* C25: handleReplyClick and handleQuoteClick dispatch replyCompose and
\* quoteCompose themselves only while the compose text is blank after trimming,
\* and then no modal opens; with other text they open a CONFIRM modal, and the
\* compose action is dispatched by its onConfirm alone, behind the opening of
\* that modal.
C25_ConfirmBeforeOverwrite ==
  /\ \A k \in DOMAIN composed :
       /\ composed[k].by # "onConfirm" =>
            /\ composed[k].blank <=> composed[k].type \in ComposeActions
            /\ ~composed[k].blank <=> composed[k].type = "MODAL_OPEN"
       /\ composed[k].by = "onConfirm" =>
            /\ composed[k].type \in ComposeActions
            /\ k > 1
            /\ composed[k - 1].type = "MODAL_OPEN"
            /\ composed[k - 1].status = composed[k].status
            /\ composed[k - 1].by = (IF composed[k].type = "replyCompose"
                                       THEN "handleReplyClick" ELSE "handleQuoteClick")
  /\ modal # NoModal =>
       /\ composed # <<>>
       /\ composed[Len(composed)].type = "MODAL_OPEN"
       /\ ~composed[Len(composed)].blank

\* A quote was confirmed in a modal, and a reply was dispatched at once over a
\* compose text of blanks.
C25_Witness ==
  /\ \E k \in DOMAIN composed :
       composed[k].by = "onConfirm" /\ composed[k].type = "quoteCompose"
  /\ \E k \in DOMAIN composed :
       composed[k].by = "handleReplyClick" /\ composed[k].type = "replyCompose"
  /\ composeText = <<" ">>

====
